---- MODULE Spec2Model ----
(***************************************************************************)
(* Model of the generation request handlers of audic-musicgen:             *)
(*   modal_app.py     generate_sfx                                         *)
(*   musicgen_app.py  generate_music, generate_music_with_melody,          *)
(*                    generate_music_endpoint                              *)
(* Each handler runs as a sequence of steps; every call into an external   *)
(* collaborator (imports, model registry, audio library, file system,      *)
(* object store) either returns or raises, chosen nondeterministically.    *)
(* Python values that may be None are modelled as sequences of length at   *)
(* most one: <<>> is None and <<v>> is the value v.                        *)
(***************************************************************************)
EXTENDS Integers, Sequences, FiniteSets, TLC

(* ------------------------------ bounds --------------------------------- *)

\* longest content, in bytes, of an encoded audio file
MaxFileLen == 3

\* most channels in the audio a model returns
MaxChannels == 2

\* most lines of a .env file
MaxEnvLines == 2

(* --------------------------- Python values ----------------------------- *)

None == <<>>

Some(v) == <<v>>

Val(o) == o[1]

\* `if x:` for an optional string: None and "" are falsy
Truthy(o) == o # None /\ Val(o) # ""

\* f"{x}" for an optional string
Format(o) == IF o = None THEN "None" ELSE Val(o)

(* ------------------------------ strings -------------------------------- *)

CharAt(s, i) == SubSeq(s, i, i)

IsSpace(c) == c \in {" ", "\t"}

RECURSIVE LStrip(_)
LStrip(s) == IF Len(s) > 0 /\ IsSpace(CharAt(s, 1)) THEN LStrip(Tail(s)) ELSE s

RECURSIVE RStrip(_)
RStrip(s) ==
    IF Len(s) > 0 /\ IsSpace(CharAt(s, Len(s)))
    THEN RStrip(SubSeq(s, 1, Len(s) - 1))
    ELSE s

\* str.strip()
Strip(s) == RStrip(LStrip(s))

\* s[i..] starts with p
StartsWithAt(s, p, i) == i + Len(p) - 1 <= Len(s) /\ SubSeq(s, i, i + Len(p) - 1) = p

StartsWith(s, p) == StartsWithAt(s, p, 1)

EndsWith(s, p) == Len(p) <= Len(s) /\ SubSeq(s, Len(s) - Len(p) + 1, Len(s)) = p

\* p occurs in s
Contains(s, p) == \E i \in 1..(Len(s) + 1) : StartsWithAt(s, p, i)

\* the part of a key before its first "/" (the whole key when it has none)
RECURSIVE FirstSegment(_)
FirstSegment(s) ==
    IF Len(s) = 0 \/ CharAt(s, 1) = "/" THEN ""
    ELSE CharAt(s, 1) \o FirstSegment(Tail(s))

(* ------------------------------ base64 --------------------------------- *)

B64Alphabet == "ABCDEFGHIJKLMNOPQRSTUVWXYZabcdefghijklmnopqrstuvwxyz0123456789+/"

B64Char(n) == CharAt(B64Alphabet, n + 1)

B64Index(c) == CHOOSE n \in 0..63 : B64Char(n) = c

\* base64.b64encode(bytes).decode('utf-8')
RECURSIVE b64encode(_)
b64encode(bytes) ==
    IF Len(bytes) = 0 THEN ""
    ELSE IF Len(bytes) = 1 THEN
        B64Char(bytes[1] \div 4) \o B64Char((bytes[1] % 4) * 16) \o "=="
    ELSE IF Len(bytes) = 2 THEN
        B64Char(bytes[1] \div 4)
            \o B64Char((bytes[1] % 4) * 16 + bytes[2] \div 16)
            \o B64Char((bytes[2] % 16) * 4) \o "="
    ELSE
        B64Char(bytes[1] \div 4)
            \o B64Char((bytes[1] % 4) * 16 + bytes[2] \div 16)
            \o B64Char((bytes[2] % 16) * 4 + bytes[3] \div 64)
            \o B64Char(bytes[3] % 64)
            \o b64encode(SubSeq(bytes, 4, Len(bytes)))

\* base64.b64decode of a well-formed base64 text
RECURSIVE b64decode(_)
b64decode(s) ==
    IF Len(s) < 4 THEN <<>>
    ELSE LET a == B64Index(CharAt(s, 1))
             b == B64Index(CharAt(s, 2))
             c3 == CharAt(s, 3)
             c4 == CharAt(s, 4)
         IN  IF c3 = "=" THEN <<a * 4 + b \div 16>>
             ELSE IF c4 = "=" THEN
                 <<a * 4 + b \div 16, (b % 16) * 16 + B64Index(c3) \div 4>>
             ELSE
                 <<a * 4 + b \div 16,
                   (b % 16) * 16 + B64Index(c3) \div 4,
                   (B64Index(c3) % 4) * 64 + B64Index(c4)>>
                     \o b64decode(SubSeq(s, 5, Len(s)))

(* ------------------------------ inputs --------------------------------- *)

Handlers ==
    {"generate_sfx", "generate_music", "generate_music_with_melody",
     "generate_music_endpoint"}

required_vars == {"AWS_ACCESS_KEY_ID", "AWS_SECRET_ACCESS_KEY", "S3_BUCKET_NAME"}

\* a variable of the process environment is unset, empty or set
EnvValues(var) ==
    {None, Some(""),
     Some(IF var = "S3_BUCKET_NAME" THEN "my-bucket"
          ELSE IF var = "AWS_ACCESS_KEY_ID" THEN "AKIA" ELSE "secret")}

Environments == {e \in [required_vars -> UNION {EnvValues(v) : v \in required_vars}] :
                    \A v \in required_vars : e[v] \in EnvValues(v)}

Prompts == {None, Some(""), Some(" \t"), Some("test tone"), Some(" hi ")}

Durations == {None, Some(-1), Some(0), Some(1), Some(5), Some(300), Some(301)}

ModelSizes == {None, Some("small"), Some("large"), Some("melody"), Some("xl")}

DedupIds == {None, Some(""), Some("abc123"), Some("a/b")}

MelodyPaths == {Some("ref.wav")}

Timestamps == {"20240101_000000", "20240101_000001"}

\* the two invocations that run side by side, and the tokens they may carry
Invocations == {1, 2}

PairTokens == {None, Some(""), Some("abc"), Some("melody_abc")}

SampleRates == {16000, 32000}

ByteValues == {0, 255}

\* wav[0] of a model output: a tensor [channels, samples]
Tensor2D(c) == [ndim |-> 2, channels |-> [ch \in 1..c |-> <<6 * ch>>]]

ModelOutputs == {Tensor2D(c) : c \in 1..MaxChannels}

Channels(t) == IF t.ndim = 1 THEN 1 ELSE Len(t.channels)

RECURSIVE SumAt(_, _)
SumAt(chs, i) == IF Len(chs) = 0 THEN 0 ELSE Head(chs)[i] + SumAt(Tail(chs), i)

\* audio_values.mean(axis=0): the per-sample average of the channels
MeanAxis0(t) ==
    [ndim |-> 1,
     samples |-> [i \in 1..Len(t.channels[1]) |->
                    SumAt(t.channels, i) \div Len(t.channels)]]

\* if audio_values.ndim > 1: audio_values = audio_values.mean(axis=0)
ToMono(t) == IF t.ndim > 1 THEN MeanAxis0(t) ELSE t

\* the audio a handler prepares for audio_write from wav[0]
PreparedAudio(body, t) == IF body = "generate_sfx" THEN t ELSE ToMono(t)

\* the signal audio_read loads from a path
AudioRead(path) == "signal of " \o Format(path)

RECURSIVE BytesUpTo(_)
BytesUpTo(n) ==
    IF n = 0 THEN {<<>>}
    ELSE BytesUpTo(n - 1)
            \cup {Append(b, v) : b \in {x \in BytesUpTo(n - 1) : Len(x) = n - 1},
                                 v \in ByteValues}

FileContents == BytesUpTo(MaxFileLen)

\* request bodies of the HTTP endpoint: each key is absent (None) or present
\* with a value (Some(v), where v itself may be Python's None)
RequestValues(k) ==
    IF k = "prompt" THEN {None, Some(""), Some("test tone")}
    ELSE IF k = "duration" THEN {None, Some(0), Some(5)}
    ELSE IF k = "model_size" THEN {None, Some("small"), Some("xl")}
    ELSE {Some("abc123")}

RequestField(k) == {None} \cup {Some(v) : v \in RequestValues(k)}

\* a request that is not a dict (None), or a dict
Requests ==
    {None} \cup
    {Some(r) : r \in [prompt : RequestField("prompt"),
                      duration : RequestField("duration"),
                      model_size : RequestField("model_size"),
                      message_deduplication_id : RequestField("message_deduplication_id")]}

(* ------------------------------- state --------------------------------- *)

VARIABLES
    env,                        \* os.environ, restricted to required_vars
    handler,                    \* the function invoked by the caller
    request,                    \* generate_music_endpoint's request body
    prompt, duration, model_size, melody_path, message_deduplication_id,
    sampling_rate, timestamp, filename, wav_filename,
    audio_bytes, audio_base64, bucket_name, s3_key,
    melody,                     \* the reference signal audio_read returned
    gen_input,                  \* the arguments of the model's generate call
    audio_values,               \* the generated audio being prepared
    written,                    \* the tensor handed to audio_write
    files,                      \* local ephemeral storage: file name -> bytes
    s3,                         \* objects uploaded to the object store
    calls,                      \* external calls of this invocation, in order
    pc,                         \* position in the running function
    remote_result,              \* value returned by generate_music.remote
    result,                     \* value returned to the caller
    raised,                     \* exception that left the function
    invocations,                \* two invocations of the music handlers side by side
    setup                       \* setup_modal_secrets.py: the .env file and the script's values

args == <<prompt, duration, model_size, melody_path, message_deduplication_id>>

locals == <<sampling_rate, timestamp, filename, wav_filename, audio_bytes,
            audio_base64, bucket_name, s3_key>>

signal == <<melody, gen_input, audio_values, written>>

world == <<files, s3>>

ctl == <<pc, remote_result, result, raised>>

fixed == <<env, handler, request, invocations, setup>>

vars == <<fixed, args, locals, signal, world, calls, ctl>>

\* the function whose body is executing at the generation steps
Body == IF handler = "generate_music_endpoint" THEN "generate_music" ELSE handler

Called(op) == \E i \in 1..Len(calls) : calls[i][1] = op

Succeeded(op) == \E i \in 1..Len(calls) : calls[i] = <<op, "ok">>

Failed(op) == \E i \in 1..Len(calls) : calls[i] = <<op, "raise">>

Outcome(ok) == IF ok THEN "ok" ELSE "raise"

\* str(e) of the exception an external call raises
ExcMsg(op) == op \o " failed"

(* ------------------------- validation rules ---------------------------- *)

MinDuration == 1

MaxDuration == 300

DefaultDuration == 30

DefaultModelSize == "large"

valid_models == {"small", "medium", "large", "melody"}

\* faulty variant: an empty value passes for a set one
validate_environmentUnsetOnly == \A var \in required_vars : env[var] # None

\* validate_environment(): every required variable is set and non-empty
validate_environment == \A var \in required_vars : Truthy(env[var])

\* faulty variant: the upper bound is excluded
ValidDurationExclusive(d) == ~(Val(d) < MinDuration \/ Val(d) >= MaxDuration)

\* not (duration < 1 or duration > 300), for an integer duration
ValidDuration(d) == ~(Val(d) < MinDuration \/ Val(d) > MaxDuration)

\* faulty variant: the prompt is not trimmed before the check
EmptyPromptUntrimmed(p) == ~Truthy(p)

\* not prompt or not prompt.strip()
EmptyPrompt(p) == ~Truthy(p) \/ Strip(Val(p)) = ""

\* faulty variant: only a missing model_size is rejected
InvalidModelSizeNoneOnly(m) == m = None

\* model_size not in valid_models
InvalidModelSize(m) == m = None \/ Val(m) \notin valid_models

(* ------------------------------ messages ------------------------------- *)

MissingCredentials ==
    "Missing AWS credentials. Please run setup_modal_secrets.py or use Modal secrets"

InvalidModelSizeMsg == "Invalid model size. Must be one of: small, medium, large, melody"

DurationMsg == "Duration must be between 1 and 300 seconds"

PromptMsg == "Prompt cannot be empty"

ModelLoadPrefix == "Model loading failed: "

MelodyLoadPrefix == "Melody loading failed: "

\* faulty variant: the generation failure reuses the model-load tag
GenerationPrefixOfLoad(body) == ModelLoadPrefix

GenerationPrefix(body) ==
    IF body = "generate_sfx" THEN "Audio generation failed: "
    ELSE "Music generation failed: "

PromptRequiredMsg == "prompt is required"

(* ------------------------- names and storage keys ---------------------- *)

\* faulty variant: the filename branch tests `is not None`, the key branch truthiness
FilenameTokenNotNone(body, dedup, ts) ==
    IF body = "generate_sfx" THEN "generated_audio_" \o ts
    ELSE IF body = "generate_music" THEN
        IF dedup # None THEN "musicgen_" \o Format(dedup) \o "_" \o ts
        ELSE "generated_music_" \o ts
    ELSE
        IF dedup # None THEN "musicgen_melody_" \o Format(dedup) \o "_" \o ts
        ELSE "generated_music_melody_" \o ts

\* the stem handed to audio_write
Filename(body, dedup, ts) ==
    IF body = "generate_sfx" THEN "generated_audio_" \o ts
    ELSE IF body = "generate_music" THEN
        IF Truthy(dedup) THEN "musicgen_" \o Format(dedup) \o "_" \o ts
        ELSE "generated_music_" \o ts
    ELSE
        IF Truthy(dedup) THEN "musicgen_melody_" \o Format(dedup) \o "_" \o ts
        ELSE "generated_music_melody_" \o ts

WavFilename(stem) == stem \o ".wav"

\* audiocraft's audio_write(stem_name, ...) writes the file stem_name + ".wav"
AudioWritePath(stem) == stem \o ".wav"

\* faulty variant: the token is left out of the key
S3KeyWithoutToken(body, dedup, wav) == "audio/" \o wav

\* faulty variant: one prefix per family, with and without a token
S3KeyFamilyPrefix(body, dedup, wav) ==
    IF body = "generate_sfx" THEN "audio/" \o wav
    ELSE IF Truthy(dedup) THEN "musicgen/" \o Format(dedup) \o "/" \o wav
    ELSE "musicgen/" \o wav

S3Key(body, dedup, wav) ==
    IF body = "generate_sfx" THEN "audio/" \o wav
    ELSE IF Truthy(dedup) THEN "musicgen/" \o Format(dedup) \o "/" \o wav
    ELSE "audio/" \o wav

\* faulty variant: the bucket is left out of the URI
S3UriWithoutBucket(bucket, key) == "s3://" \o key

S3Uri(bucket, key) == "s3://" \o bucket \o "/" \o key

DefaultBucket(body) == IF body = "generate_sfx" THEN "audiogen-demo" ELSE "audic-musicgen"

\* faulty variant: the configured bucket is ignored
GetBucketNameHardCoded(body) == DefaultBucket(body)

\* os.getenv('S3_BUCKET_NAME', default)
GetBucketName(body) ==
    IF env["S3_BUCKET_NAME"] = None THEN DefaultBucket(body)
    ELSE Val(env["S3_BUCKET_NAME"])

(* ------------------------------ results -------------------------------- *)

\* faulty variant: the error result also carries a success flag
ErrorResultTagged(msg) == [success |-> FALSE, error |-> msg]

ErrorResult(msg) == [error |-> msg]

EndpointFailure(msg) == [success |-> FALSE, error |-> msg]

\* faulty variant: the size reported is that of the base64 text
BaseFieldsTextSize ==
    [success |-> TRUE,
     audio_base64 |-> audio_base64,
     sampling_rate |-> Val(sampling_rate),
     duration |-> duration,
     format |-> "wav",
     filename |-> Val(wav_filename),
     file_size_bytes |-> Len(audio_base64),
     prompt_used |-> prompt]

\* faulty variant: the prompt echoed is the trimmed prompt
BaseFieldsTrimmedPrompt ==
    [success |-> TRUE,
     audio_base64 |-> audio_base64,
     sampling_rate |-> Val(sampling_rate),
     duration |-> duration,
     format |-> "wav",
     filename |-> Val(wav_filename),
     file_size_bytes |-> Len(audio_bytes),
     prompt_used |-> Some(Strip(Val(prompt)))]

\* the fields every success result carries
BaseFields ==
    [success |-> TRUE,
     audio_base64 |-> audio_base64,
     sampling_rate |-> Val(sampling_rate),
     duration |-> duration,
     format |-> "wav",
     filename |-> Val(wav_filename),
     file_size_bytes |-> Len(audio_bytes),
     prompt_used |-> prompt]

\* the fields the music handlers add
FamilyFields ==
    IF Body = "generate_sfx" THEN <<>>
    ELSE IF Body = "generate_music" THEN
        [model_size |-> model_size,
         message_deduplication_id |-> message_deduplication_id]
    ELSE
        [model_size |-> Some("melody"),
         melody_path |-> melody_path,
         message_deduplication_id |-> message_deduplication_id]

StorageFields ==
    [s3_uri |-> S3Uri(bucket_name, s3_key),
     s3_bucket |-> bucket_name,
     s3_key |-> s3_key]

SuccessWithStorage == (BaseFields @@ FamilyFields) @@ StorageFields

SuccessWithoutStorage == BaseFields @@ FamilyFields

Has(r, field) == field \in DOMAIN r

IsSuccess(r) == Has(r, "success") /\ r.success = TRUE

IsError(r) == Has(r, "error")

(* --------------------------- control flow ------------------------------ *)

Goto(p) == pc' = p /\ UNCHANGED <<remote_result, result, raised>>

\* `return r` in a generation function: to the caller, or back into the
\* endpoint when the function runs as generate_music.remote
Return(r) ==
    IF handler = "generate_music_endpoint"
    THEN pc' = "ep_return" /\ remote_result' = Some(r) /\ UNCHANGED <<result, raised>>
    ELSE pc' = "done" /\ result' = Some(r) /\ UNCHANGED <<remote_result, raised>>

\* `return r` in generate_music_endpoint
EndpointReturn(r) == pc' = "done" /\ result' = Some(r) /\ UNCHANGED <<remote_result, raised>>

\* faulty variant: no catch-all: the exception leaves the function
OuterExceptReraises(e) ==
    pc' = "done" /\ raised' = Some(e) /\ UNCHANGED <<remote_result, result>>

\* except Exception as e: return {"error": str(e)}
OuterExcept(e) == Return(ErrorResult(e))

\* faulty variant: a failed model load is tried again
ModelExceptRetries(e) == Goto("load_model")

\* except Exception as model_error
ModelExcept(e) == Return(ErrorResult(ModelLoadPrefix \o e))

\* faulty variant: a failed melody read is ignored
MelodyExceptIgnored(e) == Goto("generate")

\* except Exception as melody_error
MelodyExcept(e) == Return(ErrorResult(MelodyLoadPrefix \o e))

\* faulty variant: a failed generation does not end the request
GenExceptContinues(e) == Goto("postprocess")

\* except Exception as gen_error
GenExcept(e) == Return(ErrorResult(GenerationPrefix(Body) \o e))

\* faulty variant: a failed upload fails the request
UploadExceptFails(e) == Return(ErrorResult(e))

\* except Exception as s3_error: the result without the storage fields
UploadExcept(e) == Return(SuccessWithoutStorage)

\* generate_music_endpoint's except Exception as e
EndpointExcept(e) == EndpointReturn(EndpointFailure(e))

Call(op, ok) == calls' = Append(calls, <<op, Outcome(ok)>>)

(* ------------------------------ actions -------------------------------- *)

\* an invocation that has not been made
NotInvoked ==
    [pc |-> "idle", handler |-> None, message_deduplication_id |-> None,
     timestamp |-> None, filename |-> None, wav_filename |-> None, s3_key |-> None]

\* the setup script has not been run
SetupNotRun ==
    [pc |-> "idle", env_file |-> None, hf_token |-> None, existing_values |-> <<>>,
     values |-> <<>>, raised |-> None]

Init ==
    /\ env \in Environments
    /\ handler = "generate_sfx"
    /\ request = None
    /\ prompt = None /\ duration = None /\ model_size = None
    /\ melody_path = None /\ message_deduplication_id = None
    /\ sampling_rate = None /\ timestamp = None /\ filename = None
    /\ wav_filename = None /\ audio_bytes = None /\ audio_base64 = None
    /\ bucket_name = None /\ s3_key = None
    /\ melody = None /\ gen_input = None /\ audio_values = None /\ written = None
    /\ files = <<>> /\ s3 = {} /\ calls = <<>>
    /\ pc = "idle" /\ remote_result = None /\ result = None /\ raised = None
    /\ invocations = [i \in Invocations |-> NotInvoked]
    /\ setup = SetupNotRun

\* nothing of the invocation has run yet
NotStarted ==
    UNCHANGED <<env, invocations, setup, locals, signal, world, calls, remote_result,
                result, raised>>

\* a caller invokes generate_sfx(prompt, duration)
InvokeSfx ==
    /\ pc = "idle"
    /\ handler' = "generate_sfx" /\ request' = None
    /\ prompt' \in Prompts /\ duration' \in Durations
    /\ model_size' = None /\ melody_path' = None /\ message_deduplication_id' = None
    /\ pc' = "validate_env"
    /\ NotStarted

\* a caller invokes generate_music(prompt, duration, model_size, message_deduplication_id)
InvokeMusic ==
    /\ pc = "idle"
    /\ handler' = "generate_music" /\ request' = None
    /\ prompt' \in Prompts /\ duration' \in Durations
    /\ model_size' \in ModelSizes /\ melody_path' = None
    /\ message_deduplication_id' \in DedupIds
    /\ pc' = "validate_env"
    /\ NotStarted

\* a caller invokes generate_music_with_melody(prompt, melody_path, duration, ...)
InvokeMelody ==
    /\ pc = "idle"
    /\ handler' = "generate_music_with_melody" /\ request' = None
    /\ prompt' \in Prompts /\ duration' \in Durations
    /\ model_size' = None /\ melody_path' \in MelodyPaths
    /\ message_deduplication_id' \in DedupIds
    /\ pc' = "validate_env"
    /\ NotStarted

\* a caller invokes generate_music_endpoint(request)
InvokeEndpoint ==
    /\ pc = "idle"
    /\ handler' = "generate_music_endpoint" /\ request' \in Requests
    /\ prompt' = None /\ duration' = None
    /\ model_size' = None /\ melody_path' = None /\ message_deduplication_id' = None
    /\ pc' = "ep_extract"
    /\ NotStarted

\* faulty variant: the default is not applied
GetWithoutDefault(req, key, default) == IF req[key] = None THEN None ELSE Val(req[key])

\* request.get(key, default)
Get(req, key, default) == IF req[key] = None THEN default ELSE Val(req[key])

\* generate_music_endpoint: extract the parameters, require the prompt
EpExtract ==
    /\ pc = "ep_extract"
    /\ IF request = None
       THEN /\ EndpointExcept("'NoneType' object has no attribute 'get'")
            /\ UNCHANGED args
       ELSE /\ prompt' = Get(Val(request), "prompt", None)
            /\ duration' = Get(Val(request), "duration", Some(DefaultDuration))
            /\ model_size' = Get(Val(request), "model_size", Some(DefaultModelSize))
            /\ message_deduplication_id' =
                    Get(Val(request), "message_deduplication_id", None)
            /\ UNCHANGED melody_path
            /\ IF ~Truthy(prompt')
               THEN EndpointReturn(EndpointFailure(PromptRequiredMsg))
               ELSE Goto("ep_call")
    /\ UNCHANGED <<fixed, locals, signal, world, calls>>

\* generate_music_endpoint: generate_music.remote(...) starts the function or fails
EpCall ==
    /\ pc = "ep_call"
    /\ \E ok \in BOOLEAN :
        /\ Call("remote", ok)
        /\ IF ok THEN Goto("validate_env") ELSE EndpointExcept(ExcMsg("remote"))
    /\ UNCHANGED <<fixed, args, signal, locals, world>>

\* faulty variant: the endpoint tags a failure of generate_music with success=False
EpReturnTagsFailure ==
    /\ pc = "ep_return"
    /\ EndpointReturn(IF IsError(Val(remote_result))
                      THEN EndpointFailure(Val(remote_result).error)
                      ELSE Val(remote_result))
    /\ UNCHANGED <<fixed, args, signal, locals, world, calls>>

\* generate_music_endpoint: return result
EpReturn ==
    /\ pc = "ep_return"
    /\ EndpointReturn(Val(remote_result))
    /\ UNCHANGED <<fixed, args, signal, locals, world, calls>>

\* if not validate_environment(): return {"error": ...}
ValidateEnvironment ==
    /\ pc = "validate_env"
    /\ IF ~validate_environment
       THEN Return(ErrorResult(MissingCredentials))
       ELSE Goto("imports")
    /\ UNCHANGED <<fixed, args, signal, locals, world, calls>>

\* from audiocraft.models import ...; import torch; ...
Imports ==
    /\ pc = "imports"
    /\ \E ok \in BOOLEAN :
        /\ Call("import", ok)
        /\ IF ok
           THEN Goto(IF Body = "generate_music" THEN "validate_model" ELSE "load_model")
           ELSE OuterExcept(ExcMsg("import"))
    /\ UNCHANGED <<fixed, args, signal, locals, world>>

\* generate_music: if model_size not in valid_models: return {"error": ...}
ValidateModelSize ==
    /\ pc = "validate_model"
    /\ IF InvalidModelSize(model_size)
       THEN Return(ErrorResult(InvalidModelSizeMsg))
       ELSE Goto("load_model")
    /\ UNCHANGED <<fixed, args, signal, locals, world, calls>>

\* model = AudioGen.get_pretrained(...) / MusicGen.get_pretrained(...)
LoadModel ==
    /\ pc = "load_model"
    /\ \E ok \in BOOLEAN :
        /\ Call("get_pretrained", ok)
        /\ IF ok
           THEN \E rate \in SampleRates :
                    /\ sampling_rate' = Some(rate)
                    /\ Goto("validate_args")
           ELSE /\ ModelExcept(ExcMsg("get_pretrained"))
                /\ UNCHANGED sampling_rate
    /\ UNCHANGED <<fixed, args, signal, timestamp, filename, wav_filename, audio_bytes,
                   audio_base64, bucket_name, s3_key, world>>

\* the duration check, then the prompt check
ValidateArgs ==
    /\ pc = "validate_args"
    /\ IF duration = None
       THEN OuterExcept("'<' not supported between instances of 'NoneType' and 'int'")
       ELSE IF ~ValidDuration(duration) THEN Return(ErrorResult(DurationMsg))
       ELSE IF EmptyPrompt(prompt) THEN Return(ErrorResult(PromptMsg))
       ELSE Goto("set_params")
    /\ UNCHANGED <<fixed, args, signal, locals, world, calls>>

\* model.set_generation_params(duration=duration)
SetGenerationParams ==
    /\ pc = "set_params"
    /\ \E ok \in BOOLEAN :
        /\ Call("set_generation_params", ok)
        /\ IF ok
           THEN Goto(IF Body = "generate_music_with_melody"
                     THEN "melody_read" ELSE "generate")
           ELSE OuterExcept(ExcMsg("set_generation_params"))
    /\ UNCHANGED <<fixed, args, signal, locals, world>>

\* generate_music_with_melody: melody, sr = audio_read(melody_path)
MelodyRead ==
    /\ pc = "melody_read"
    /\ \E ok \in BOOLEAN :
        /\ Call("audio_read", ok)
        /\ IF ok
           THEN /\ melody' = Some(AudioRead(melody_path))
                /\ Goto("generate")
           ELSE /\ MelodyExcept(ExcMsg("audio_read"))
                /\ UNCHANGED melody
    /\ UNCHANGED <<fixed, args, gen_input, audio_values, written, locals, world>>

\* wav = model.generate([prompt]) / model.generate_with_chroma(...)
Generate ==
    /\ pc = "generate"
    /\ \E ok \in BOOLEAN :
        /\ Call("generate", ok)
        /\ IF ok
           THEN /\ audio_values' \in {Some(t) : t \in ModelOutputs}
                /\ Goto("postprocess")
           ELSE /\ GenExcept(ExcMsg("generate"))
                /\ UNCHANGED audio_values
    /\ gen_input' = Some([prompts |-> <<prompt>>, melody |-> melody])
    /\ UNCHANGED <<fixed, args, melody, written, locals, world>>

\* audio_values = wav[0] and its conversions
PostProcess ==
    /\ pc = "postprocess"
    /\ \E ok \in BOOLEAN :
        /\ Call("postprocess", ok)
        /\ IF ok
           THEN /\ audio_values' = Some(PreparedAudio(Body, Val(audio_values)))
                /\ Goto("timestamp")
           ELSE /\ OuterExcept(ExcMsg("postprocess"))
                /\ UNCHANGED audio_values
    /\ UNCHANGED <<fixed, args, melody, gen_input, written, locals, world>>

\* timestamp = datetime.now().strftime(...); filename = ...
NameFile ==
    /\ pc = "timestamp"
    /\ \E ts \in Timestamps :
        /\ timestamp' = Some(ts)
        /\ filename' = Some(Filename(Body, message_deduplication_id, ts))
    /\ Goto("audio_write")
    /\ UNCHANGED <<fixed, args, signal, sampling_rate, wav_filename, audio_bytes,
                   audio_base64, bucket_name, s3_key, world, calls>>

\* audio_write(filename, ...); wav_filename = f"{filename}.wav"
AudioWrite ==
    /\ pc = "audio_write"
    /\ \E ok \in BOOLEAN :
        /\ Call("audio_write", ok)
        /\ written' = audio_values
        /\ IF ok
           THEN \E content \in FileContents :
                    /\ files' = (AudioWritePath(Val(filename)) :> content) @@ files
                    /\ wav_filename' = Some(WavFilename(Val(filename)))
                    /\ Goto("read_back")
           ELSE /\ OuterExcept(ExcMsg("audio_write"))
                /\ UNCHANGED <<files, wav_filename>>
    /\ UNCHANGED <<fixed, args, melody, gen_input, audio_values, sampling_rate,
                   timestamp, filename, audio_bytes, audio_base64, bucket_name,
                   s3_key, s3>>

\* with open(wav_filename, 'rb') as f: audio_bytes = f.read(); audio_base64 = ...
ReadBack ==
    /\ pc = "read_back"
    /\ \E ok \in BOOLEAN :
        /\ Call("open", ok /\ Val(wav_filename) \in DOMAIN files)
        /\ IF ok /\ Val(wav_filename) \in DOMAIN files
           THEN /\ audio_bytes' = files[Val(wav_filename)]
                /\ audio_base64' = b64encode(files[Val(wav_filename)])
                /\ Goto("s3_client")
           ELSE /\ OuterExcept(ExcMsg("open"))
                /\ UNCHANGED <<audio_bytes, audio_base64>>
    /\ UNCHANGED <<fixed, args, signal, sampling_rate, timestamp, filename, wav_filename,
                   bucket_name, s3_key, world>>

\* import boto3; s3_client = boto3.client(...); bucket_name = ...; s3_key = ...
S3Client ==
    /\ pc = "s3_client"
    /\ \E ok \in BOOLEAN :
        /\ Call("boto3.client", ok)
        /\ IF ok
           THEN /\ bucket_name' = GetBucketName(Body)
                /\ s3_key' = S3Key(Body, message_deduplication_id, Val(wav_filename))
                /\ Goto("upload")
           ELSE /\ UploadExcept(ExcMsg("boto3.client"))
                /\ UNCHANGED <<bucket_name, s3_key>>
    /\ UNCHANGED <<fixed, args, signal, sampling_rate, timestamp, filename, wav_filename,
                   audio_bytes, audio_base64, world>>

\* s3_client.upload_file(wav_filename, bucket_name, s3_key); return {...}
Upload ==
    /\ pc = "upload"
    /\ \E ok \in BOOLEAN :
        /\ Call("upload_file", ok)
        /\ IF ok
           THEN /\ s3' = s3 \cup {[bucket |-> bucket_name, key |-> s3_key,
                                   body |-> files[Val(wav_filename)]]}
                /\ Return(SuccessWithStorage)
           ELSE /\ UploadExcept(ExcMsg("upload_file"))
                /\ UNCHANGED s3
    /\ UNCHANGED <<fixed, args, signal, locals, files>>

Next ==
    \/ InvokeSfx \/ InvokeMusic \/ InvokeMelody \/ InvokeEndpoint
    \/ EpExtract \/ EpCall \/ EpReturn
    \/ ValidateEnvironment \/ Imports \/ ValidateModelSize \/ LoadModel
    \/ ValidateArgs \/ SetGenerationParams \/ MelodyRead \/ Generate
    \/ PostProcess \/ NameFile \/ AudioWrite \/ ReadBack \/ S3Client \/ Upload

Spec == Init /\ [][Next]_vars

(* ----------------------------- health_check ---------------------------- *)

\* each import of health_check succeeds, raises ImportError, or raises another error
ImportOutcomes == [1..3 -> {"ok", "ImportError", "raise"}]

HealthStart == [import_status |-> TRUE, missing_imports |-> <<>>, error |-> None, log |-> <<>>]

\* faulty variant: a missing module is listed but import_status stays True
HealthImportKeepsStatus(st, module, outcome) ==
    IF st.error # None THEN st
    ELSE IF outcome = "ok"
        THEN [st EXCEPT !.log = Append(@, <<"import " \o module, outcome>>)]
    ELSE IF outcome = "ImportError"
        THEN [st EXCEPT !.missing_imports = Append(@, module),
                        !.log = Append(@, <<"import " \o module, outcome>>)]
    ELSE [st EXCEPT !.error = Some(ExcMsg("import " \o module)),
                    !.log = Append(@, <<"import " \o module, outcome>>)]

\* try: import module / except ImportError: missing_imports.append(...); import_status = False
HealthImport(st, module, outcome) ==
    IF st.error # None THEN st
    ELSE IF outcome = "ok"
        THEN [st EXCEPT !.log = Append(@, <<"import " \o module, outcome>>)]
    ELSE IF outcome = "ImportError"
        THEN [st EXCEPT !.missing_imports = Append(@, module),
                        !.import_status = FALSE,
                        !.log = Append(@, <<"import " \o module, outcome>>)]
    ELSE [st EXCEPT !.error = Some(ExcMsg("import " \o module)),
                    !.log = Append(@, <<"import " \o module, outcome>>)]

\* the three imports, in order
HealthImports(o) ==
    HealthImport(HealthImport(HealthImport(HealthStart, "torch", o[1]),
                              "scipy", o[2]),
                 "boto3", o[3])

\* the dict health_check returns
HealthResult(env_status, st) ==
    IF st.error # None
    THEN [status |-> "error", error |-> Val(st.error)]
    ELSE [status |-> IF env_status /\ st.import_status THEN "healthy" ELSE "unhealthy",
          environment_valid |-> env_status,
          imports_valid |-> st.import_status,
          missing_imports |-> st.missing_imports,
          gpu_available |-> TRUE,
          modal_version |-> "1.1.0"]

\* a caller invokes health_check()
InvokeHealthCheck ==
    /\ pc = "idle"
    /\ handler' = "health_check" /\ pc' = "health_check"
    /\ UNCHANGED <<request, args>>
    /\ NotStarted

\* health_check()
HealthCheck ==
    /\ pc = "health_check"
    /\ \E o \in ImportOutcomes :
        /\ calls' = HealthImports(o).log
        /\ result' = Some(HealthResult(validate_environment, HealthImports(o)))
    /\ pc' = "done"
    /\ UNCHANGED <<fixed, args, locals, signal, world, remote_result, raised>>

NextHealth == InvokeHealthCheck \/ HealthCheck

SpecHealth == Init /\ [][NextHealth]_vars

(* ------------------- two invocations of the music handlers ------------- *)

\* The naming and storing steps of generate_music and generate_music_with_melody
\* for two invocations that share the local directory and the bucket; each is
\* taken from the point where its generation has succeeded, and its steps
\* interleave freely with the other's.

\* the bytes invocation i encodes
PairContent(i) == <<IF i = 1 THEN 0 ELSE 255>>

PairStep(i, at, new) ==
    /\ invocations[i].pc = at
    /\ invocations' = [invocations EXCEPT ![i] = new]
    /\ UNCHANGED <<env, handler, request, setup, args, locals, signal, calls, ctl>>

\* a caller invokes a music handler with a deduplication token
PairInvoke ==
    \E i \in Invocations : \E h \in {"generate_music", "generate_music_with_melody"} :
        \E id \in PairTokens :
            /\ PairStep(i, "idle", [invocations[i] EXCEPT !.pc = "timestamp", !.handler = Some(h),
                                                          !.message_deduplication_id = id])
            /\ UNCHANGED world

\* timestamp = datetime.now().strftime(...); filename = f"..."
PairNameFile ==
    \E i \in Invocations : \E ts \in Timestamps :
        /\ PairStep(i, "timestamp",
                    [invocations[i] EXCEPT
                        !.pc = "audio_write", !.timestamp = Some(ts),
                        !.filename = Some(Filename(Val(invocations[i].handler),
                                                   invocations[i].message_deduplication_id,
                                                   ts))])
        /\ UNCHANGED world

\* audio_write(filename, ...); wav_filename = f"{filename}.wav"
PairAudioWrite ==
    \E i \in Invocations :
        /\ PairStep(i, "audio_write",
                    [invocations[i] EXCEPT
                        !.pc = "upload",
                        !.wav_filename = Some(WavFilename(Val(invocations[i].filename)))])
        /\ files' = (AudioWritePath(Val(invocations[i].filename)) :> PairContent(i)) @@ files
        /\ UNCHANGED s3

\* s3_key = f"..."; s3_client.upload_file(wav_filename, bucket_name, s3_key)
PairUpload ==
    \E i \in Invocations :
        LET inv == invocations[i]
            key == S3Key(Val(inv.handler), inv.message_deduplication_id, Val(inv.wav_filename))
        IN  /\ PairStep(i, "upload", [inv EXCEPT !.pc = "done", !.s3_key = Some(key)])
            /\ s3' = {o \in s3 : o.key # key}
                        \cup {[bucket |-> GetBucketName(Val(inv.handler)), key |-> key,
                               body |-> files[Val(inv.wav_filename)]]}
            /\ UNCHANGED files

InitPair == Init /\ \A var \in required_vars : Truthy(env[var])

NextPair == PairInvoke \/ PairNameFile \/ PairAudioWrite \/ PairUpload

SpecPair == InitPair /\ [][NextPair]_vars

(* ------------------------- setup_modal_secrets.py ---------------------- *)

\* index of the first occurrence of the character c in s, 0 when there is none
IndexOf(s, c) ==
    IF \E i \in 1..Len(s) : CharAt(s, i) = c
    THEN CHOOSE i \in 1..Len(s) :
            CharAt(s, i) = c /\ \A j \in 1..(i - 1) : CharAt(s, j) # c
    ELSE 0

\* the lines of a text file, without their terminators
RECURSIVE ReadLines(_)
ReadLines(text) ==
    IF text = "" THEN <<>>
    ELSE LET i == IndexOf(text, "\n")
         IN  IF i = 0 THEN <<text>>
             ELSE <<SubSeq(text, 1, i - 1)>> \o ReadLines(SubSeq(text, i + 1, Len(text)))

\* "\n".join(lines)
RECURSIVE Join(_)
Join(lines) ==
    IF lines = <<>> THEN ""
    ELSE IF Len(lines) = 1 THEN lines[1]
    ELSE lines[1] \o "\n" \o Join(Tail(lines))

\* line.split("=", 1) of a line that holds "="
SplitKey(line) == SubSeq(line, 1, IndexOf(line, "=") - 1)

SplitValue(line) == SubSeq(line, IndexOf(line, "=") + 1, Len(line))

\* a dict: its items in insertion order
DictHas(d, key) == \E i \in 1..Len(d) : d[i][1] = key

DictGet(d, key) == d[CHOOSE i \in 1..Len(d) : d[i][1] = key][2]

DictSet(d, key, value) ==
    IF DictHas(d, key)
    THEN [i \in 1..Len(d) |-> IF d[i][1] = key THEN <<key, value>> ELSE d[i]]
    ELSE Append(d, <<key, value>>)

DictDel(d, key) == SelectSeq(d, LAMBDA item : item[1] # key)

DictKeys(d) == {d[i][1] : i \in 1..Len(d)}

\* the loop of load_env_values over the lines of the file
RECURSIVE LoadLines(_, _)
LoadLines(lines, values) ==
    IF lines = <<>> THEN values
    ELSE LET line == Strip(Head(lines))
         IN  IF line # "" /\ ~StartsWith(line, "#") /\ Contains(line, "=")
             THEN LoadLines(Tail(lines), DictSet(values, SplitKey(line), SplitValue(line)))
             ELSE LoadLines(Tail(lines), values)

\* load_env_values(): the file may be absent
load_env_values(env_file) ==
    IF env_file = None THEN <<>> ELSE LoadLines(ReadLines(Val(env_file)), <<>>)

\* the keys update_env_file sets, in the order it inserts them
Updated(access_key, secret_key, region, bucket, hf_token) ==
    <<<<"AWS_ACCESS_KEY_ID", access_key>>, <<"AWS_SECRET_ACCESS_KEY", secret_key>>,
      <<"AWS_REGION", region>>, <<"S3_BUCKET_NAME", bucket>>>>
        \o (IF Truthy(hf_token) THEN <<<<"HUGGING_FACE_TOKEN", Val(hf_token)>>>> ELSE <<>>)

\* the loop of update_env_file over the existing lines; key, value = line.split("=", 1)
\* raises ValueError on a line without "="
RECURSIVE ProcessLines(_, _, _)
ProcessLines(env_lines, new_lines, updated) ==
    IF env_lines = <<>>
    THEN [raised |-> None, new_lines |-> new_lines, updated |-> updated]
    ELSE LET line == Strip(Head(env_lines))
         IN  IF line # "" /\ ~StartsWith(line, "#")
             THEN IF ~Contains(line, "=")
                  THEN [raised |-> Some("ValueError"), new_lines |-> new_lines,
                        updated |-> updated]
                  ELSE LET key == SplitKey(line)
                       IN  IF DictHas(updated, key)
                           THEN ProcessLines(Tail(env_lines),
                                    Append(new_lines, key \o "=" \o DictGet(updated, key)),
                                    DictDel(updated, key))
                           ELSE ProcessLines(Tail(env_lines), Append(new_lines, line),
                                             updated)
             ELSE ProcessLines(Tail(env_lines), Append(new_lines, line), updated)

\* update_env_file(...): the file afterwards, or the exception raised before the write
update_env_file(env_file, access_key, secret_key, region, bucket, hf_token) ==
    LET env_lines == IF env_file = None THEN <<>> ELSE ReadLines(Val(env_file))
        done == ProcessLines(env_lines, <<>>,
                             Updated(access_key, secret_key, region, bucket, hf_token))
        added == [i \in 1..Len(done.updated) |->
                    done.updated[i][1] \o "=" \o done.updated[i][2]]
    IN  IF done.raised # None
        THEN [raised |-> done.raised, env_file |-> env_file]
        ELSE [raised |-> None,
              env_file |-> Some(Join(done.new_lines \o added) \o "\n")]

\* lines a .env file may hold
EnvLines ==
    {"# AWS Credentials", "", "AWS_ACCESS_KEY_ID=your_aws_access_key_here",
     "AWS_REGION=us-east-1", "AWS_REGION=eu-west-1", " S3_BUCKET_NAME=audiogen-demo ",
     "HUGGING_FACE_TOKEN=old", "EXTRA=a=b", "export"}

RECURSIVE LinesUpTo(_)
LinesUpTo(n) ==
    IF n = 0 THEN {<<>>}
    ELSE LinesUpTo(n - 1)
            \cup {Append(ls, l) : ls \in {x \in LinesUpTo(n - 1) : Len(x) = n - 1},
                                  l \in EnvLines}

\* the .env file before the script runs: absent, or text ending in a newline
EnvFiles ==
    {None} \cup {Some(Join(ls) \o "\n") : ls \in LinesUpTo(MaxEnvLines) \ {<<>>}}

HfTokens == {None, Some(""), Some("hf_token")}

\* the credentials typed at the prompts of setup_aws_credentials
AccessKey == "AKIA"

SecretKey == "secret"

Region == "eu-west-2"

BucketName == "my-bucket"

SetupStep(new) ==
    /\ setup' = new
    /\ UNCHANGED <<env, handler, request, invocations, args, locals, signal, world, calls,
                   ctl>>

\* the script starts on some .env file, with some Hugging Face token typed
SetupStart ==
    /\ setup.pc = "idle"
    /\ \E f \in EnvFiles : \E hf \in HfTokens :
        SetupStep([setup EXCEPT !.pc = "load", !.env_file = f, !.hf_token = hf])

\* existing_values = load_env_values()
SetupLoadExisting ==
    /\ setup.pc = "load"
    /\ SetupStep([setup EXCEPT !.pc = "update",
                               !.existing_values = load_env_values(setup.env_file)])

\* update_env_file(access_key, secret_key, region, bucket_name, hf_token)
SetupUpdateEnvFile ==
    /\ setup.pc = "update"
    /\ LET r == update_env_file(setup.env_file, AccessKey, SecretKey, Region, BucketName,
                                setup.hf_token)
       IN  SetupStep([setup EXCEPT !.pc = IF r.raised = None THEN "reload" ELSE "done",
                                   !.env_file = r.env_file, !.raised = r.raised])

\* load_env_values() on the file update_env_file wrote
SetupReload ==
    /\ setup.pc = "reload"
    /\ SetupStep([setup EXCEPT !.pc = "done", !.values = load_env_values(setup.env_file)])

InitSetup == Init /\ \A var \in required_vars : Truthy(env[var])

NextSetup == SetupStart \/ SetupLoadExisting \/ SetupUpdateEnvFile \/ SetupReload

SpecSetup == InitSetup /\ [][NextSetup]_vars

(* ------------------------ vocabulary of the claims --------------------- *)

GenerationHandlers == {"generate_sfx", "generate_music", "generate_music_with_melody"}

MusicHandlers == {"generate_music", "generate_music_with_melody"}

\* the generation function has returned (to the caller or to the endpoint)
BodyReturned ==
    IF handler = "generate_music_endpoint" THEN remote_result # None ELSE result # None

BodyResult ==
    IF handler = "generate_music_endpoint" THEN Val(remote_result) ELSE Val(result)

\* the generation function has started
BodyStarted ==
    IF handler = "generate_music_endpoint" THEN Succeeded("remote") ELSE pc # "idle"

\* the prompt has a character that is not whitespace
NonBlank(p) == p # None /\ \E i \in 1..Len(Val(p)) : ~IsSpace(CharAt(Val(p), i))

InRange(d) == d # None /\ 1 <= Val(d) /\ Val(d) <= 300

OutOfRange(d) == d # None /\ (Val(d) < 1 \/ Val(d) > 300)

KnownVariant(m) == m \in {Some("small"), Some("medium"), Some("large"), Some("melody")}

AllCallsSucceeded == \A i \in 1..Len(calls) : calls[i][2] = "ok"

NoStorageFields(r) == ~Has(r, "s3_uri") /\ ~Has(r, "s3_bucket") /\ ~Has(r, "s3_key")

(* -------------------------------- C1 ----------------------------------- *)

\* C1: whatever the inputs and whichever external calls raise, no exception
\* leaves generate_sfx, generate_music, generate_music_with_melody or
\* generate_music_endpoint: every step that has not returned can go on, and the
\* finished invocation has returned a dict with success=True or with an "error".
C1_NoExceptionEscapes ==
    /\ raised = None
    /\ pc \notin {"idle", "done"} => ENABLED Next
    /\ pc = "done" =>
        /\ result # None
        /\ IsSuccess(Val(result)) \/ IsError(Val(result))

\* an unexpected failure (audio_write raises) ended in the catch-all
C1_Witness ==
    /\ pc = "done" /\ handler = "generate_music" /\ Failed("audio_write")
    /\ result = Some(ErrorResult(ExcMsg("audio_write")))

(* -------------------------------- C2 ----------------------------------- *)

\* C2: once the model is loaded (credentials present, valid variant), a
\* duration in 1..300 with a prompt that is non-empty after trimming is not
\* rejected by validation (the function goes on to configure and generate), and
\* a duration below 1 or above 300 returns exactly the duration-range error
\* without generate ever being called.
C2_DurationValidation ==
    Succeeded("get_pretrained") =>
        /\ (InRange(duration) /\ NonBlank(prompt) /\ pc # "validate_args") =>
                (pc = "set_params" \/ Called("set_generation_params"))
        /\ OutOfRange(duration) =>
                /\ ~Called("generate")
                /\ pc # "validate_args" =>
                        (BodyReturned /\ BodyResult = ErrorResult(DurationMsg))

\* the upper limit 300 with a padded prompt went on to generation
C2_Witness ==
    /\ duration = Some(300) /\ prompt = Some(" hi ") /\ Succeeded("generate")
    /\ handler = "generate_music_with_melody"

(* -------------------------------- C3 ----------------------------------- *)

\* C3: with a prompt that is None, empty or only whitespace the generation
\* functions never call generate and return an error result, never a success
\* result, whatever the duration.
C3_BlankPromptRejected ==
    (BodyStarted /\ ~NonBlank(prompt)) =>
        /\ ~Called("generate")
        /\ BodyReturned => (IsError(BodyResult) /\ ~IsSuccess(BodyResult))
        /\ pc = "done" => BodyReturned

\* a whitespace-only prompt with a valid duration was rejected by the prompt check
C3_Witness ==
    /\ pc = "done" /\ handler = "generate_sfx"
    /\ prompt = Some(" \t") /\ duration = Some(5)
    /\ result = Some(ErrorResult(PromptMsg))

(* -------------------------------- C4 ----------------------------------- *)

\* C4 (as claimed): generate_music with a model_size outside small, medium,
\* large, melody returns an error result naming the valid set and never calls
\* MusicGen.get_pretrained.
C4_Original ==
    (Body = "generate_music" /\ BodyStarted /\ ~KnownVariant(model_size)) =>
        /\ ~Called("get_pretrained")
        /\ BodyReturned =>
            /\ IsError(BodyResult)
            /\ Contains(BodyResult.error, "small, medium, large, melody")

\* C4 (amended): generate_music with a model_size outside the set never calls
\* MusicGen.get_pretrained and returns an error result; the error names the
\* valid set when the credentials are present and the imports succeed, else it
\* is the missing-credentials message or the import failure's message.
C4_InvalidVariantNeverLoads ==
    (Body = "generate_music" /\ BodyStarted /\ ~KnownVariant(model_size)) =>
        /\ ~Called("get_pretrained")
        /\ pc \in {"validate_env", "imports", "validate_model", "ep_return", "done"}
        /\ BodyReturned =>
            /\ IsError(BodyResult) /\ ~IsSuccess(BodyResult)
            /\ Succeeded("import") =>
                    Contains(BodyResult.error, "small, medium, large, melody")
            /\ Failed("import") => BodyResult = ErrorResult(ExcMsg("import"))
            /\ ~Called("import") => BodyResult = ErrorResult(MissingCredentials)

\* an unknown variant was rejected with the message naming the valid set
C4_Witness ==
    /\ pc = "done" /\ handler = "generate_music" /\ model_size = Some("xl")
    /\ Succeeded("import") /\ result = Some(ErrorResult(InvalidModelSizeMsg))

(* -------------------------------- C5 ----------------------------------- *)

\* C5: all input validation completes before the model load, so a request with
\* an out-of-range duration or an empty prompt never triggers a model load.
C5_ValidationBeforeLoad ==
    (BodyStarted /\ Body \in GenerationHandlers
        /\ (OutOfRange(duration) \/ ~NonBlank(prompt))) =>
            ~Called("get_pretrained")

(* -------------------------------- C6 ----------------------------------- *)

\* C6: when everything up to the file read-back succeeded and the upload (the
\* client creation or upload_file) raises, the function returns success=True
\* with the inline audio and none of s3_uri, s3_bucket, s3_key.
C6_UploadFailureIsNotFatal ==
    (Succeeded("open") /\ (Failed("boto3.client") \/ Failed("upload_file"))) =>
        /\ BodyReturned
        /\ IsSuccess(BodyResult)
        /\ Has(BodyResult, "audio_base64")
        /\ BodyResult.audio_base64 = b64encode(audio_bytes)
        /\ NoStorageFields(BodyResult)
        /\ ~IsError(BodyResult)

\* upload_file raised in generate_sfx
C6_Witness ==
    /\ pc = "done" /\ handler = "generate_sfx" /\ Failed("upload_file")
    /\ IsSuccess(Val(result))

(* -------------------------------- C7 ----------------------------------- *)

\* C7: in the music handlers the key of an upload is musicgen/t/<filename> for
\* a non-empty token t, so that /t/ occurs in it, and audio/<filename> when no
\* token is supplied; the key is fixed by the handler, the token and the timestamp.
C7_KeyFollowsToken ==
    (Body \in MusicHandlers /\ BodyReturned /\ Has(BodyResult, "s3_key")) =>
        LET key == BodyResult.s3_key
            t == message_deduplication_id
            infix == IF Body = "generate_music_with_melody" THEN "melody_" ELSE ""
        IN  /\ Truthy(t) =>
                /\ key = "musicgen/" \o Val(t) \o "/" \o BodyResult.filename
                /\ Contains(key, "/" \o Val(t) \o "/")
                /\ key = "musicgen/" \o Val(t) \o "/musicgen_" \o infix
                            \o Val(t) \o "_" \o Val(timestamp) \o ".wav"
            /\ t = None =>
                /\ key = "audio/" \o BodyResult.filename
                /\ key = "audio/generated_music_" \o infix
                            \o Val(timestamp) \o ".wav"
            /\ \E o \in s3 : o.key = key

\* an upload of generate_music_with_melody with a token
C7_Witness ==
    /\ pc = "done" /\ handler = "generate_music_with_melody"
    /\ message_deduplication_id = Some("abc123")
    /\ Has(Val(result), "s3_key") /\ Succeeded("upload_file")

(* -------------------------------- C8 ----------------------------------- *)

KeyOf(r) == r.s3_key

EndsInOneWav(key) == EndsWith(key, ".wav") /\ ~EndsWith(key, ".wav.wav")

C9_SizeAndBase64RoundTrip ==
    (BodyReturned /\ IsSuccess(BodyResult)) =>
        /\ BodyResult.filename \in DOMAIN files
        /\ BodyResult.file_size_bytes = Len(files[BodyResult.filename])
        /\ b64decode(BodyResult.audio_base64) = files[BodyResult.filename]
        /\ Len(b64decode(BodyResult.audio_base64)) = BodyResult.file_size_bytes

\* a success result for a two-byte file (base64 with padding), upload failed
C9_Witness ==
    /\ pc = "done" /\ result # None /\ IsSuccess(Val(result))
    /\ Val(result).file_size_bytes = 2 /\ Len(Val(result).audio_base64) = 4
    /\ NoStorageFields(Val(result))

(* -------------------------------- C10 ---------------------------------- *)

EchoesRequest(r) ==
    /\ IsSuccess(r)
    /\ r.duration = duration
    /\ r.format = "wav"
    /\ r.prompt_used = prompt
    /\ Body = "generate_music" =>
        /\ r.model_size = model_size
        /\ r.message_deduplication_id = message_deduplication_id

\* C10 (as claimed): when all external calls succeed for a request with a valid
\* duration and a non-empty prompt, the result is a success that echoes the
\* duration, "wav", the prompt as supplied and, for generate_music, model_size
\* and message_deduplication_id.
C10_Original ==
    (handler \in GenerationHandlers /\ pc = "done" /\ AllCallsSucceeded
        /\ InRange(duration) /\ NonBlank(prompt)) =>
            (result # None /\ EchoesRequest(Val(result)))

\* C10 (amended): the same, provided the credentials are present and, for
\* generate_music, model_size is one of small, medium, large, melody.
C10_SuccessEchoesRequest ==
    (handler \in GenerationHandlers /\ pc = "done" /\ AllCallsSucceeded
        /\ InRange(duration) /\ NonBlank(prompt)
        /\ (\A var \in required_vars : env[var] \notin {None, Some("")})
        /\ (handler = "generate_music" => KnownVariant(model_size))) =>
            (result # None /\ EchoesRequest(Val(result)))

\* a success of generate_music for a padded prompt, with a token
C10_Witness ==
    /\ pc = "done" /\ handler = "generate_music" /\ AllCallsSucceeded
    /\ prompt = Some(" hi ") /\ duration = Some(1)
    /\ message_deduplication_id = Some("abc123")
    /\ result # None /\ EchoesRequest(Val(result))

(* -------------------------------- C11 ---------------------------------- *)

\* the request is a dict and generate_music_endpoint has read it
EndpointExtracted ==
    handler = "generate_music_endpoint" /\ request # None /\ pc \notin {"idle", "ep_extract"}

\* the request carries no usable prompt: key absent, None, or ""
NoPrompt(req) == req.prompt \in {None, Some(None), Some(Some(""))}

\* C11: generate_music_endpoint answers a request without a prompt (key absent,
\* None or empty) at once with {success: False, error: "prompt is required"}
\* and never calls generate_music; with a prompt, generate_music receives the
\* request's values, duration 30 when the key is absent and model_size "large"
\* when the key is absent.
C11_EndpointDefaults ==
    EndpointExtracted =>
        LET req == Val(request)
        IN  IF NoPrompt(req)
            THEN /\ pc = "done" /\ calls = <<>> /\ remote_result = None
                 /\ result = Some([success |-> FALSE, error |-> "prompt is required"])
            ELSE /\ pc = "ep_call" \/ Called("remote")
                 /\ prompt = Val(req.prompt)
                 /\ duration = (IF req.duration = None THEN Some(30) ELSE Val(req.duration))
                 /\ model_size =
                        (IF req.model_size = None THEN Some("large") ELSE Val(req.model_size))
                 /\ message_deduplication_id =
                        (IF req.message_deduplication_id = None THEN None
                         ELSE Val(req.message_deduplication_id))

\* a request with only a prompt ran generate_music with duration 30 and "large"
C11_Witness ==
    /\ handler = "generate_music_endpoint" /\ pc = "done"
    /\ request = Some([prompt |-> Some(Some("test tone")), duration |-> None,
                       model_size |-> None, message_deduplication_id |-> None])
    /\ duration = Some(30) /\ model_size = Some("large")
    /\ Succeeded("generate") /\ IsSuccess(Val(result))

(* -------------------------------- C12 ---------------------------------- *)

CredentialMissing == \E var \in required_vars : env[var] \in {None, Some("")}

\* C13: validate_environment returns False exactly when one of
\* AWS_ACCESS_KEY_ID, AWS_SECRET_ACCESS_KEY, S3_BUCKET_NAME is unset or empty,
\* and then every generation handler returns the "Missing AWS credentials..."
\* error before any import, model load, generation, file write or upload,
\* whatever the other inputs.
C13_MissingCredentialsRejected ==
    /\ validate_environment <=> ~CredentialMissing
    /\ (CredentialMissing /\ BodyStarted) =>
        /\ \A i \in 1..Len(calls) : calls[i][1] = "remote"
        /\ files = <<>> /\ s3 = {} /\ written = None /\ gen_input = None
        /\ pc # "validate_env" =>
            /\ BodyReturned
            /\ BodyResult =
                [error |-> "Missing AWS credentials. Please run setup_modal_secrets.py or use Modal secrets"]

\* an empty bucket name rejected a melody request
C13_Witness ==
    /\ pc = "done" /\ handler = "generate_music_with_melody"
    /\ env["S3_BUCKET_NAME"] = Some("") /\ env["AWS_ACCESS_KEY_ID"] = Some("AKIA")
    /\ env["AWS_SECRET_ACCESS_KEY"] = Some("secret")
    /\ prompt = Some("test tone") /\ duration = Some(5)
    /\ result = Some(ErrorResult(MissingCredentials))

(* -------------------------------- C14 ---------------------------------- *)

\* C14: an error result of generate_sfx, generate_music or
\* generate_music_with_melody is the single field "error": no success key, no
\* audio, no metadata, no storage fields; and no result at all has both an
\* "error" field and success=True.
C14_ErrorResultShape ==
    /\ (BodyReturned /\ IsError(BodyResult)) => DOMAIN BodyResult = {"error"}
    /\ BodyReturned => (IsError(BodyResult) <=> ~IsSuccess(BodyResult))
    /\ result # None => ~(IsError(Val(result)) /\ IsSuccess(Val(result)))

\* the error result of a failed generation in generate_sfx
C14_Witness ==
    /\ pc = "done" /\ handler = "generate_sfx" /\ Failed("generate")
    /\ DOMAIN Val(result) = {"error"}

(* -------------------------------- C15 ---------------------------------- *)

UploadOps == {"boto3.client", "upload_file"}

\* the stages of the generation function that must all succeed
FatalStages ==
    {"import", "get_pretrained", "set_generation_params", "generate", "postprocess",
     "audio_write", "open"}
        \cup (IF Body = "generate_music_with_melody" THEN {"audio_read"} ELSE {})

\* C15: the first failure of a stage other than upload ends the request with an
\* error result: it is the last call made, nothing is written or uploaded after
\* it, a rejected validation makes no further call, and a success result means
\* every check passed and every such stage succeeded.
C15_FirstFailureShortCircuits ==
    /\ \A i \in 1..Len(calls) :
        (calls[i][2] = "raise" /\ calls[i][1] \notin UploadOps) =>
            /\ i = Len(calls)
            /\ pc \in {"ep_return", "done"}
            /\ calls[i][1] # "remote" => (BodyReturned /\ IsError(BodyResult))
            /\ calls[i][1] = "remote" => (result # None /\ IsError(Val(result)))
    /\ (BodyReturned /\ IsError(BodyResult)) =>
        /\ ~Called("boto3.client") /\ ~Called("upload_file") /\ s3 = {}
        /\ ~Succeeded("audio_write") => files = <<>>
    /\ (BodyStarted /\ CredentialMissing) => ~Called("import")
    /\ (BodyStarted /\ Body = "generate_music" /\ ~KnownVariant(model_size)) =>
            ~Called("get_pretrained")
    /\ (BodyStarted /\ ~(InRange(duration) /\ NonBlank(prompt))) =>
            ~Called("set_generation_params")
    /\ (BodyReturned /\ IsSuccess(BodyResult)) =>
        /\ \A op \in FatalStages : Succeeded(op)
        /\ ~CredentialMissing /\ InRange(duration) /\ NonBlank(prompt)
        /\ Body = "generate_music" => KnownVariant(model_size)

\* the file read-back failed: error result, the file written, nothing uploaded
C15_Witness ==
    /\ pc = "done" /\ handler = "generate_music" /\ Failed("open")
    /\ IsError(Val(result)) /\ files # <<>> /\ s3 = {}

(* -------------------------------- C16 ---------------------------------- *)

CountCalls(op) == Cardinality({i \in 1..Len(calls) : calls[i][1] = op})

\* C16: no retries: within one invocation the model load, the melody read, the
\* generate call, the audio write and the upload (and every other external
\* call) are each made at most once, whether they succeed or fail.
C16_NoRetries ==
    \A op \in {"get_pretrained", "audio_read", "generate", "audio_write", "upload_file",
               "import", "set_generation_params", "postprocess", "open", "boto3.client",
               "remote"} :
        CountCalls(op) <= 1

\* a failed model load, made once, ended the request
C16_Witness ==
    /\ pc = "done" /\ Failed("get_pretrained") /\ CountCalls("get_pretrained") = 1
    /\ handler = "generate_music" /\ Len(calls) = 2

(* -------------------------------- C17 ---------------------------------- *)

StageTags ==
    {"Model loading failed: ", "Audio generation failed: ", "Music generation failed: ",
     "Melody loading failed: "}

UntaggedMessages ==
    {MissingCredentials, InvalidModelSizeMsg, DurationMsg, PromptMsg, PromptRequiredMsg}

\* C17: a model-load failure gives a message beginning "Model loading failed: ",
\* a generation failure one beginning "Audio generation failed: " (sfx) or
\* "Music generation failed: " (music), a reference-audio failure one beginning
\* "Melody loading failed: "; the tags are pairwise distinct (none begins
\* another) and no validation or configuration message begins with one.
C17_StageTags ==
    /\ Failed("get_pretrained") =>
        (BodyReturned /\ IsError(BodyResult)
            /\ StartsWith(BodyResult.error, "Model loading failed: "))
    /\ Failed("generate") =>
        (BodyReturned /\ IsError(BodyResult)
            /\ StartsWith(BodyResult.error,
                          IF handler = "generate_sfx" THEN "Audio generation failed: "
                          ELSE "Music generation failed: "))
    /\ Failed("audio_read") =>
        (BodyReturned /\ IsError(BodyResult)
            /\ StartsWith(BodyResult.error, "Melody loading failed: "))
    /\ {ModelLoadPrefix, MelodyLoadPrefix, GenerationPrefix("generate_sfx"),
        GenerationPrefix("generate_music"),
        GenerationPrefix("generate_music_with_melody")} = StageTags
    /\ GenerationPrefix("generate_sfx") # GenerationPrefix("generate_music")
    /\ \A t1 \in StageTags : \A t2 \in StageTags : t1 # t2 => ~StartsWith(t1, t2)
    /\ \A m \in UntaggedMessages : \A t \in StageTags : ~StartsWith(m, t)
    /\ (BodyReturned /\ IsError(BodyResult)
            /\ ~Failed("get_pretrained") /\ ~Failed("generate") /\ ~Failed("audio_read")
            /\ BodyResult.error \in UntaggedMessages) =>
                \A t \in StageTags : ~StartsWith(BodyResult.error, t)

\* a generation failure of the melody handler, tagged as a music generation failure
C17_Witness ==
    /\ pc = "done" /\ handler = "generate_music_with_melody" /\ Failed("generate")
    /\ StartsWith(Val(result).error, "Music generation failed: ")

(* -------------------------------- C18 ---------------------------------- *)

\* C18: generate_music_with_melody reads the reference audio from melody_path
\* after the duration and prompt checks and before generation, and passes the
\* loaded signal to the generate call together with the prompt; when the read
\* fails the function returns an error result and generate is never called.
C18_MelodyBeforeGenerate ==
    handler = "generate_music_with_melody" =>
        /\ Called("audio_read") =>
            /\ InRange(duration) /\ NonBlank(prompt)
            /\ Succeeded("set_generation_params")
        /\ \A i \in 1..Len(calls) : \A j \in 1..Len(calls) :
            (calls[i][1] = "audio_read" /\ calls[j][1] = "generate") => i < j
        /\ (pc = "generate" \/ Called("generate")) =>
            /\ Succeeded("audio_read")
            /\ melody = Some("signal of " \o Val(melody_path))
        /\ Called("generate") =>
            gen_input = Some([prompts |-> <<prompt>>,
                              melody |-> Some("signal of " \o Val(melody_path))])
        /\ Failed("audio_read") =>
            /\ ~Called("generate") /\ gen_input = None
            /\ pc = "done" /\ result # None /\ IsError(Val(result))

\* the melody handler generated from the prompt and the loaded reference
C18_Witness ==
    /\ handler = "generate_music_with_melody" /\ Succeeded("generate")
    /\ prompt = Some("test tone")
    /\ gen_input = Some([prompts |-> <<Some("test tone")>>,
                         melody |-> Some("signal of ref.wav")])

(* -------------------------------- C19 ---------------------------------- *)

\* C19: in every family the audio handed to audio_write is single-channel: a
\* model output of more than one channel is averaged across its channels first.
C19_WrittenAudioIsMono ==
    written # None => Channels(Val(written)) = 1

(* -------------------------------- C20 ---------------------------------- *)

StorageConsistent(r) ==
    /\ Has(r, "s3_uri") <=> Has(r, "s3_bucket")
    /\ Has(r, "s3_bucket") <=> Has(r, "s3_key")
    /\ Has(r, "s3_key") <=> Succeeded("upload_file")
    /\ Has(r, "s3_key") =>
        /\ r.s3_uri = "s3://" \o r.s3_bucket \o "/" \o r.s3_key
        /\ EndsWith(r.s3_key, r.filename)

\* C20: in every result s3_uri, s3_bucket and s3_key are all present or all
\* absent, present exactly when upload_file returned without raising, and then
\* s3_uri is "s3://" + s3_bucket + "/" + s3_key and s3_key ends with filename.
C20_StorageFields ==
    /\ result # None => StorageConsistent(Val(result))
    /\ remote_result # None => StorageConsistent(Val(remote_result))
    /\ (pc = "done" /\ handler \in GenerationHandlers) => result # None

\* an upload of generate_music under a token with a slash
C20_Witness ==
    /\ pc = "done" /\ handler = "generate_music" /\ Succeeded("upload_file")
    /\ message_deduplication_id = Some("a/b")
    /\ Has(Val(result), "s3_uri") /\ Val(result).s3_bucket = "my-bucket"

(* -------------------------------- C21 ---------------------------------- *)

\* the two invocations are of the same handler, carry the same token (an empty
\* token counting as none) and took their timestamp in the same second
SameNaming(a, b) ==
    /\ a.handler = b.handler
    /\ \/ a.message_deduplication_id = b.message_deduplication_id
       \/ (~Truthy(a.message_deduplication_id) /\ ~Truthy(b.message_deduplication_id))
    /\ a.timestamp = b.timestamp

\* C21: two invocations of the music handlers, sequential or interleaved,
\* write the same filename or upload to the same key only if they are of the
\* same handler, carry the same deduplication token (or both none) and took
\* their timestamp in the same second.
C21_NamesCollideOnlyForSameNaming ==
    LET a == invocations[1]
        b == invocations[2]
    IN  /\ (a.wav_filename # None /\ a.wav_filename = b.wav_filename) => SameNaming(a, b)
        /\ (a.s3_key # None /\ a.s3_key = b.s3_key) => SameNaming(a, b)

(* -------------------------------- C22 ---------------------------------- *)

FallbackBuckets == {"audiogen-demo", "audic-musicgen"}

UsesConfiguredBucket(name) ==
    /\ Truthy(env["S3_BUCKET_NAME"])
    /\ name = Val(env["S3_BUCKET_NAME"])
    /\ name \notin FallbackBuckets

\* C22: a result's s3_bucket is the non-empty S3_BUCKET_NAME that
\* validate_environment saw; the fallback names "audiogen-demo" and
\* "audic-musicgen" are never used for an upload, since an invocation without
\* S3_BUCKET_NAME is rejected before the upload stage.
C22_ConfiguredBucketOnly ==
    /\ (result # None /\ Has(Val(result), "s3_bucket")) =>
            UsesConfiguredBucket(Val(result).s3_bucket)
    /\ (remote_result # None /\ Has(Val(remote_result), "s3_bucket")) =>
            UsesConfiguredBucket(Val(remote_result).s3_bucket)
    /\ Called("upload_file") => UsesConfiguredBucket(bucket_name)
    /\ \A o \in s3 : UsesConfiguredBucket(o.bucket)
    /\ (BodyStarted /\ ~Truthy(env["S3_BUCKET_NAME"])) =>
            (~Called("boto3.client") /\ ~Called("upload_file") /\ bucket_name = None)

\* generate_sfx uploaded to the configured bucket
C22_Witness ==
    /\ pc = "done" /\ handler = "generate_sfx" /\ Succeeded("upload_file")
    /\ Val(result).s3_bucket = "my-bucket" /\ env["S3_BUCKET_NAME"] = Some("my-bucket")
    /\ \E o \in s3 : o.bucket = "my-bucket"

(* -------------------------------- C23 ---------------------------------- *)

TokenInFilename(r) == StartsWith(r.filename, "musicgen_")

TokenInKey(r) == StartsWith(r.s3_key, "musicgen/")

\* C23: in generate_music and generate_music_with_melody an empty-string token
\* names like no token (generated_music_<ts> / generated_music_melody_<ts>,
\* key audio/<file>); the filename branch and the key branch always agree; the
\* result's message_deduplication_id still echoes the supplied value.
C23_EmptyTokenIsAbsent ==
    (Body \in MusicHandlers /\ BodyReturned /\ IsSuccess(BodyResult)) =>
        LET r == BodyResult
            t == message_deduplication_id
            infix == IF Body = "generate_music_with_melody" THEN "melody_" ELSE ""
        IN  /\ t = Some("") =>
                /\ r.filename = "generated_music_" \o infix \o Val(timestamp) \o ".wav"
                /\ Has(r, "s3_key") => r.s3_key = "audio/" \o r.filename
                /\ r.message_deduplication_id = Some("")
            /\ TokenInFilename(r) <=> Truthy(t)
            /\ Has(r, "s3_key") =>
                /\ TokenInFilename(r) <=> TokenInKey(r)
                /\ TokenInKey(r) <=> Contains(r.s3_key, "/" \o Format(t) \o "/")
            /\ r.message_deduplication_id = t
            /\ Val(filename) \o ".wav" = r.filename

\* generate_music with an empty token, uploaded under audio/
C23_Witness ==
    /\ pc = "done" /\ handler = "generate_music" /\ message_deduplication_id = Some("")
    /\ Succeeded("upload_file")
    /\ Val(result).s3_key = "audio/generated_music_20240101_000001.wav"
    /\ Val(result).message_deduplication_id = Some("")

(* -------------------------------- C24 ---------------------------------- *)

\* the endpoint has returned for a request with a truthy prompt
EndpointAnswered ==
    handler = "generate_music_endpoint" /\ pc = "done" /\ request # None /\ Truthy(prompt)

\* the arguments the endpoint hands to generate_music
PassesRequestValues ==
    LET req == Val(request)
    IN  /\ prompt = Val(req.prompt)
        /\ duration = (IF req.duration = None THEN Some(30) ELSE Val(req.duration))
        /\ model_size = (IF req.model_size = None THEN Some("large") ELSE Val(req.model_size))
        /\ message_deduplication_id =
                (IF req.message_deduplication_id = None THEN None
                 ELSE Val(req.message_deduplication_id))

\* C24 (as claimed): for a request with a truthy prompt the endpoint returns
\* exactly the value generate_music returns for the request's values (30 and
\* "large" by default), and every failure result of the endpoint carries
\* success=False.
C24_Original ==
    EndpointAnswered =>
        /\ PassesRequestValues
        /\ result = remote_result
        /\ ~IsSuccess(Val(result)) =>
                (Has(Val(result), "success") /\ Val(result).success = FALSE)

\* C24 (amended): when the call of generate_music returns, the endpoint returns
\* its value unchanged, so a failure of generate_music arrives as {error: ...}
\* without a success key; only the endpoint's own failure, when the call
\* raises, carries success=False.
C24_EndpointPassesThrough ==
    EndpointAnswered =>
        /\ PassesRequestValues
        /\ IF Succeeded("remote")
           THEN /\ remote_result # None /\ result = remote_result
                /\ IsError(Val(result)) => DOMAIN Val(result) = {"error"}
                /\ IsSuccess(Val(result)) =>
                        /\ Val(result).prompt_used = prompt
                        /\ Val(result).duration = duration
                        /\ Val(result).model_size = model_size
                        /\ Val(result).message_deduplication_id = message_deduplication_id
           ELSE /\ Failed("remote") /\ remote_result = None
                /\ result = Some([success |-> FALSE, error |-> ExcMsg("remote")])

\* generate_music rejected duration 0 and the endpoint returned that result as it was
C24_Witness ==
    /\ EndpointAnswered /\ Succeeded("remote")
    /\ Val(request).duration = Some(Some(0))
    /\ result = Some([error |-> "Duration must be between 1 and 300 seconds"])
    /\ result = remote_result

(* -------------------------------- C25 ---------------------------------- *)

SetKeys ==
    {"AWS_ACCESS_KEY_ID", "AWS_SECRET_ACCESS_KEY", "AWS_REGION", "S3_BUCKET_NAME"}
        \cup (IF Truthy(setup.hf_token) THEN {"HUGGING_FACE_TOKEN"} ELSE {})

\* the values load_env_values returns after update_env_file
RoundTrip(before, after) ==
    /\ DictHas(after, "AWS_ACCESS_KEY_ID") /\ DictGet(after, "AWS_ACCESS_KEY_ID") = "AKIA"
    /\ DictHas(after, "AWS_SECRET_ACCESS_KEY")
    /\ DictGet(after, "AWS_SECRET_ACCESS_KEY") = "secret"
    /\ DictHas(after, "AWS_REGION") /\ DictGet(after, "AWS_REGION") = "eu-west-2"
    /\ DictHas(after, "S3_BUCKET_NAME") /\ DictGet(after, "S3_BUCKET_NAME") = "my-bucket"
    /\ Truthy(setup.hf_token) =>
        (DictHas(after, "HUGGING_FACE_TOKEN")
            /\ DictGet(after, "HUGGING_FACE_TOKEN") = Val(setup.hf_token))
    /\ DictKeys(after) = DictKeys(before) \cup SetKeys
    /\ \A k \in DictKeys(before) \ SetKeys : DictGet(after, k) = DictGet(before, k)

\* C25: for any .env content, after update_env_file(access_key, secret_key,
\* region, bucket_name, hf_token) load_env_values returns the four values (and
\* hf_token when it is non-empty), every other key keeps its value, and
\* update_env_file does not raise on a file load_env_values can read.
C25_EnvFileRoundTrip ==
    /\ setup.pc \notin {"idle", "load"} => setup.raised = None
    /\ (setup.pc = "done" /\ setup.raised = None) =>
            RoundTrip(setup.existing_values, setup.values)

====
